---- MODULE Spec2Model ----
(***************************************************************************)
(* A model of the data-quality check engine of src/backend.py: the value   *)
(* normalizer (clean_for_json) and the detectors that run over one         *)
(* in-memory DataFrame (missing values, type mismatches, duplicate rows,   *)
(* pattern-invalid cells, consistency rules).                              *)
(*                                                                         *)
(* Conventions.                                                            *)
(*  - A cell is a record [kind, num, chars]: kind is the Python type of    *)
(*    the object held ("NoneType", "nan" for a float NaN, "int", "float",  *)
(*    "bool", "str"); num is the numeric value in tenths (30 is 300,       *)
(*    200.5 is 2005, True is 10); chars is the text of a str cell.         *)
(*  - A DataFrame is [columns, data]: the column names in order and, per   *)
(*    column, the sequence of its cells. Row labels are 0..n-1 as in the   *)
(*    code (a RangeIndex), so TLA+ position p holds row label p-1.         *)
(*  - A Python dict is a sequence of <<key, value>> pairs in insertion     *)
(*    order; a Python list is a sequence.                                  *)
(*  - The engine keeps no state between calls: every detector is a pure    *)
(*    function of its DataFrame, applied by one action of a specification  *)
(*    whose initial states draw the DataFrame from a bounded set.          *)
(***************************************************************************)
EXTENDS Integers, Sequences, FiniteSets, TLC

VARIABLES df, arg, call, out, prev

vars == <<df, arg, call, out, prev>>

\* Largest number of rows of a DataFrame drawn by Init.
MaxRows == 3

\* Largest number of base rows over two columns, of rows sampled from the
\* base rows, and of base rows over one column, in the specification of
\* the duplicate detector on base rows followed by copies.
MaxBase == 2
MaxCopies == 2
MaxSingle == 3

\* Largest number of rows of a DataFrame, and of rules, in the
\* specification of the consistency evaluator.
MaxRuleRows == 3
MaxRules == 2

\* Largest number of rows of a DataFrame analysed with the default rules.
MaxDefaultRows == 3

\* Largest number of items of a list, tuple, array or dict drawn as an
\* input of clean_for_json.
MaxItems == 2

----------------------------------------------------------------------------
\* Generic helpers.

Range(s) == {s[i] : i \in 1..Len(s)}


\* dict helpers: a dict is a sequence of <<key, value>> pairs.
Keys(d) == {d[i][1] : i \in 1..Len(d)}

HasKey(d, k) == \E i \in 1..Len(d) : d[i][1] = k

Get(d, k) == d[CHOOSE i \in 1..Len(d) : d[i][1] = k][2]

\* d[k] = v on a dict: replaces the value in place, or appends a new key.
Put(d, k, v) ==
    IF HasKey(d, k)
    THEN [i \in 1..Len(d) |-> IF d[i][1] = k THEN <<k, v>> ELSE d[i]]
    ELSE Append(d, <<k, v>>)

----------------------------------------------------------------------------
\* Cells.

NoneCell == [kind |-> "NoneType", num |-> 0, chars |-> <<>>]
NaNCell == [kind |-> "nan", num |-> 0, chars |-> <<>>]
IntCell(n) == [kind |-> "int", num |-> 10 * n, chars |-> <<>>]
FloatCell(tenths) == [kind |-> "float", num |-> tenths, chars |-> <<>>]
BoolCell(b) == [kind |-> "bool", num |-> IF b THEN 10 ELSE 0, chars |-> <<>>]
StrCell(cs) == [kind |-> "str", num |-> 0, chars |-> cs]

\* pandas isna(): None and NaN are the missing markers.
isna(c) == c.kind \in {"NoneType", "nan"}

\* A variant that gives int and float cells one common type name.
type_name_numeric(c) ==
    IF c.kind \in {"int", "float", "nan"} THEN "numeric" ELSE c.kind

\* type(value).__name__ of a cell.
type_name(c) == IF c.kind = "nan" THEN "float" ELSE c.kind

IsNumber(c) == c.kind \in {"int", "float", "bool"}

----------------------------------------------------------------------------
\* DataFrames.

Len_df(d) == IF d.columns = <<>> THEN 0 ELSE Len(d.data[d.columns[1]])

\* The row at position p as a function from column name to cell.
RowAt(d, p) == [c \in Range(d.columns) |-> d.data[c][p]]

\* pd.DataFrame(data) on a dict of lists: the dtype a column is given and
\* what that does to its cells. A column with a str cell, or with a bool
\* next to anything else, is an object column and keeps every Python
\* object; a column of ints is int64; a column of ints, floats and missing
\* cells with a float or a missing cell in it is float64, where every int
\* is widened to the float of the same value and None becomes NaN; a
\* column of None alone stays an object column.
InferColumn(cells) ==
    LET kinds == {cells[i].kind : i \in 1..Len(cells)}
        numeric == kinds \subseteq {"int", "float", "NoneType", "nan"}
        float64 == numeric /\ (kinds \cap {"float", "nan"} # {}
                               \/ {"int", "NoneType"} \subseteq kinds)
    IN  IF float64
        THEN [i \in 1..Len(cells) |->
                 IF cells[i].kind = "NoneType" THEN NaNCell
                 ELSE IF cells[i].kind = "int" THEN FloatCell(cells[i].num)
                 ELSE cells[i]]
        ELSE cells

DataFrame(columns, data) ==
    [columns |-> columns, data |-> [c \in Range(columns) |-> InferColumn(data[c])]]

----------------------------------------------------------------------------
\* Python values returned by the detectors, as [t, s, v]: t is the Python
\* type, s the text of a str and v the items of a list or the <<key,
\* value>> pairs of a dict. The "None" sentinel is the str "None".

PyStr(s) == [t |-> "str", s |-> s, v |-> <<>>]
PyList(items) == [t |-> "list", s |-> "", v |-> items]
PyDict(pairs) == [t |-> "dict", s |-> "", v |-> pairs]

NoneSentinel == PyStr("None")

----------------------------------------------------------------------------
\* detect_missing_values (backend.py 54-71).

\* df[col].isnull().sum()
missing_count(d, col) ==
    Cardinality({p \in 1..Len(d.data[col]) : isna(d.data[col][p])})

\* A positive float64 is [bits, exp]: the 53 bits of its significand, the
\* leading 1 first, and the exponent of that leading bit, so that the value
\* is 1.b2...b53 (binary) * 2^exp, as float.hex() writes it. Zero has no
\* bits.
Zero == [bits |-> <<>>, exp |-> 0]

SignificandBits == 53

\* The arithmetic below works on pieces of a significand small enough for
\* the integers of the model: ChunkBits bits of a quotient at a time,
\* LimbBits bits of a product at a time.
ChunkBits == 13
LimbBits == 16

pow2(k) == 2^k

\* The w binary digits of a natural number below 2^w.
bits_of(n, w) == [i \in 1..w |-> (n \div pow2(w - i)) % 2]

\* The number of binary digits of a natural number, 0 for 0.
bit_length(n) == CHOOSE k \in 0..30 : n < pow2(k) /\ (k = 0 \/ n >= pow2(k - 1))

\* The natural number written by binary digits.
RECURSIVE bits_value(_)
bits_value(bits) ==
    IF bits = <<>> THEN 0
    ELSE IF Len(bits) = 1 THEN bits[1]
    ELSE bits_value(SubSeq(bits, 1, Len(bits) \div 2))
            * pow2(Len(bits) - Len(bits) \div 2)
         + bits_value(SubSeq(bits, Len(bits) \div 2 + 1, Len(bits)))

\* bits + 1, one bit longer when every bit is 1.
increment(bits) ==
    LET zeros == {i \in 1..Len(bits) : bits[i] = 0}
        last == CHOOSE i \in zeros : \A j \in zeros : j <= i
    IN  IF zeros = {} THEN <<1>> \o [i \in 1..Len(bits) |-> 0]
        ELSE [i \in 1..Len(bits) |->
                 IF i < last THEN bits[i] ELSE IF i = last THEN 1 ELSE 0]

\* The float of a significand cut to 53 bits, one unit in the last place
\* higher when up.
rounded(bits, exp, up) ==
    IF ~up THEN [bits |-> bits, exp |-> exp]
    ELSE IF Len(increment(bits)) > Len(bits)
    THEN [bits |-> SubSeq(increment(bits), 1, Len(bits)), exp |-> exp + 1]
    ELSE [bits |-> increment(bits), exp |-> exp]

\* The exponent e of a / b: 2^e <= a / b < 2^(e + 1).
RECURSIVE div_exponent(_, _)
div_exponent(a, b) ==
    IF a >= 2 * b THEN div_exponent(a, 2 * b) + 1
    ELSE IF a < b THEN div_exponent(2 * a, b) - 1
    ELSE 0

\* a / b on two naturals, b > 0, as Python's true division gives it: the
\* float nearest to the quotient, a tie going to the even significand.
\* After the leading 1 the 52 bits of the quotient come from long division,
\* four chunks of 13 bits.
float_div(a, b) ==
    IF a = 0 THEN Zero
    ELSE LET e == div_exponent(a, b)
             n == IF e < 0 THEN a * pow2(-e) ELSE a
             d == IF e > 0 THEN b * pow2(e) ELSE b
             step == pow2(ChunkBits)
             r0 == n - d
             r1 == (r0 * step) % d
             r2 == (r1 * step) % d
             r3 == (r2 * step) % d
             r4 == (r3 * step) % d
             bits == <<1>> \o bits_of((r0 * step) \div d, ChunkBits)
                          \o bits_of((r1 * step) \div d, ChunkBits)
                          \o bits_of((r2 * step) \div d, ChunkBits)
                          \o bits_of((r3 * step) \div d, ChunkBits)
         IN  rounded(bits, e, 2 * r4 > d \/ (2 * r4 = d /\ bits[SignificandBits] = 1))

\* bits * m for 53 bits and a natural m < 2^LimbBits / 2: the product limb
\* by limb, least significant first, without leading zeros.
times(bits, m) ==
    LET base == pow2(LimbBits)
        top == SignificandBits - 3 * LimbBits
        p0 == bits_value(SubSeq(bits, top + 2 * LimbBits + 1, SignificandBits)) * m
        p1 == bits_value(SubSeq(bits, top + LimbBits + 1, top + 2 * LimbBits)) * m
              + p0 \div base
        p2 == bits_value(SubSeq(bits, top + 1, top + LimbBits)) * m + p1 \div base
        p3 == bits_value(SubSeq(bits, 1, top)) * m + p2 \div base
    IN  bits_of(p3, bit_length(p3)) \o bits_of(p2 % base, LimbBits)
        \o bits_of(p1 % base, LimbBits) \o bits_of(p0 % base, LimbBits)

\* x * m for a float x and a natural m > 0: the exact product rounded to
\* the nearest float, a tie going to the even significand.
float_mul(x, m) ==
    IF x = Zero THEN Zero
    ELSE LET product == times(x.bits, m)
             kept == SubSeq(product, 1, SignificandBits)
             dropped == SubSeq(product, SignificandBits + 1, Len(product))
             guard == dropped # <<>> /\ dropped[1] = 1
             sticky == \E i \in 2..Len(dropped) : dropped[i] = 1
         IN  rounded(kept, x.exp + Len(dropped),
                     guard /\ (sticky \/ kept[SignificandBits] = 1))

\* (Missing_Count / len(df)) * 100: the division is rounded to a float
\* before the multiplication, which is rounded again.
missing_percentage(count, nrows) == float_mul(float_div(count, nrows), 100)

\* The rows of missing_report with Missing_Count > 0, in column order.
RECURSIVE missing_report(_, _)
missing_report(d, k) ==
    IF k > Len(d.columns) THEN <<>>
    ELSE LET col == d.columns[k]
             n == missing_count(d, col)
         IN  (IF n > 0
              THEN << [Column |-> col,
                       Missing_Count |-> n,
                       Missing_Percentage |-> missing_percentage(n, Len_df(d))] >>
              ELSE <<>>) \o missing_report(d, k + 1)

\* A variant that returns the report as it is, an empty list included.
detect_missing_values_no_sentinel(d) == PyList(missing_report(d, 1))

detect_missing_values(d) ==
    IF missing_report(d, 1) = <<>> THEN NoneSentinel
    ELSE PyList(missing_report(d, 1))

----------------------------------------------------------------------------
\* detect_data_type_mismatches and format_data_type_mismatches
\* (backend.py 73-124).

\* A variant that maps every cell to its type, the missing ones too.
RECURSIVE type_series_with_missing(_, _)
type_series_with_missing(cells, p) ==
    IF p > Len(cells) THEN <<>>
    ELSE << <<p - 1, type_name(cells[p])>> >> \o type_series_with_missing(cells, p + 1)

\* df.loc[non_null_mask, col].map(type): <<row label, type name>> of every
\* non-missing cell, in row order.
RECURSIVE type_series(_, _)
type_series(cells, p) ==
    IF p > Len(cells) THEN <<>>
    ELSE (IF isna(cells[p]) THEN <<>> ELSE << <<p - 1, type_name(cells[p])>> >>)
         \o type_series(cells, p + 1)

\* The distinct type names of a type series in order of first appearance.
RECURSIVE first_seen(_, _)
first_seen(ts, acc) ==
    IF ts = <<>> THEN acc
    ELSE first_seen(Tail(ts),
                    IF Head(ts)[2] \in Range(acc) THEN acc
                    ELSE Append(acc, Head(ts)[2]))

count_of(ts, tag) == Cardinality({i \in 1..Len(ts) : ts[i][2] = tag})

\* The counts of value_counts() before they are sorted: <<type name,
\* count>> in order of first appearance.
counts(ts) ==
    LET seen == first_seen(ts, <<>>)
    IN  [i \in 1..Len(seen) |-> <<seen[i], count_of(ts, seen[i])>>]

\* sort_values(ascending=False) as value_counts() calls it, with the
\* default kind "quicksort": the entries by descending count. The call
\* asks for no stable sort, so which of two entries with one count comes
\* first is left to the sort numpy was built with; every arrangement with
\* the counts descending is a result the call can give.
sort_values(pairs) ==
    {[i \in 1..Len(pairs) |-> pairs[f[i]]] :
        f \in {g \in Permutations(1..Len(pairs)) :
                 \A i, j \in 1..Len(pairs) :
                    i < j => pairs[g[i]][2] >= pairs[g[j]][2]}}

\* Series.value_counts(): the results it can give for a type series.
value_counts(ts) == sort_values(counts(ts))

\* A variant that takes the last key of type_counts.
dominant_type_last(type_counts) == type_counts[Len(type_counts)][1]

\* type_counts.index[0]
dominant_type_of(type_counts) == type_counts[1][1]

\* A variant of the loop that leaves out the test against the dominant
\* type, so every non-missing cell is grouped.
RECURSIVE mixed_indices_with_dominant(_, _, _)
mixed_indices_with_dominant(ts, dominant, acc) ==
    IF ts = <<>> THEN acc
    ELSE LET idx == Head(ts)[1]
             tag == Head(ts)[2]
         IN  mixed_indices_with_dominant(Tail(ts), dominant,
                 Put(acc, tag, (IF HasKey(acc, tag) THEN Get(acc, tag) ELSE <<>>)
                               \o <<idx>>))

\* The loop of lines 94-97: the row labels of the cells whose type is not
\* the dominant one, grouped by type name (a defaultdict(list)).
RECURSIVE mixed_indices_of(_, _, _)
mixed_indices_of(ts, dominant, acc) ==
    IF ts = <<>> THEN acc
    ELSE LET idx == Head(ts)[1]
             tag == Head(ts)[2]
         IN  mixed_indices_of(Tail(ts), dominant,
                 IF tag # dominant
                 THEN Put(acc, tag, (IF HasKey(acc, tag) THEN Get(acc, tag) ELSE <<>>)
                                     \o <<idx>>)
                 ELSE acc)

\* The body of the loop over df.columns for one column, type_counts being
\* what value_counts() gave for it: the entry added to mismatches, or
\* nothing.
column_mismatch(d, col, type_counts) ==
    LET ts == type_series(d.data[col], 1)
    IN  IF ts = <<>> THEN <<>>
        ELSE IF Len(type_counts) > 1
        THEN << <<col, [dominant_type |-> dominant_type_of(type_counts),
                        type_counts |-> type_counts,
                        mixed_indices |-> mixed_indices_of(ts, dominant_type_of(type_counts), <<>>)]>> >>
        ELSE <<>>

\* What the value_counts() calls of one run can give: a result for the
\* type series of every column.
sorted_counts(d) ==
    {sorted \in [Range(d.columns) ->
                    UNION {value_counts(type_series(d.data[c], 1)) : c \in Range(d.columns)}] :
        \A c \in Range(d.columns) : sorted[c] \in value_counts(type_series(d.data[c], 1))}

RECURSIVE detect_data_type_mismatches_from(_, _, _)
detect_data_type_mismatches_from(d, sorted, k) ==
    IF k > Len(d.columns) THEN <<>>
    ELSE column_mismatch(d, d.columns[k], sorted[d.columns[k]])
         \o detect_data_type_mismatches_from(d, sorted, k + 1)

\* The mismatches dict, column -> entry, in column order, for one outcome
\* of the value_counts() calls.
detect_data_type_mismatches(d, sorted) ==
    PyDict(detect_data_type_mismatches_from(d, sorted, 1))

\* One summary line per flagged column, "<column>: Mixed types [<type>
\* (<count>), ...]", kept as its parts.
format_data_type_mismatches(mismatches) ==
    IF mismatches.v = <<>> THEN NoneSentinel
    ELSE PyList([i \in 1..Len(mismatches.v) |->
                    [column |-> mismatches.v[i][1],
                     text |-> ": Mixed types",
                     types |-> mismatches.v[i][2].type_counts]])

----------------------------------------------------------------------------
\* detect_duplicates (backend.py 126-133).

\* Equality of two cells as DataFrame.duplicated() sees it: the hash table
\* behind factorize() compares Python objects with ==, so numbers are equal
\* by value whatever their type (1 == 1.0 == True), and missing cells fall
\* into one group of their own.
cell_eq(a, b) ==
    IF isna(a) \/ isna(b) THEN isna(a) /\ isna(b)
    ELSE IF IsNumber(a) /\ IsNumber(b) THEN a.num = b.num
    ELSE a = b

\* factorize(): the code of the cell at position p of a column, which is
\* the position of the first cell equal to it (-1 for a missing cell).
factorize(cells, p) ==
    IF isna(cells[p]) THEN -1
    ELSE CHOOSE q \in 1..p : cell_eq(cells[q], cells[p])
                             /\ \A r \in 1..(q - 1) : ~cell_eq(cells[r], cells[p])

\* get_group_index(): the group id of a row, the tuple of its codes.
group_index(d, p) == [k \in 1..Len(d.columns) |-> factorize(d.data[d.columns[k]], p)]

\* duplicated(ids, keep="first"): one pass over the rows in order, marking
\* a row whose id was seen before.
RECURSIVE duplicated_from(_, _, _)
duplicated_from(d, p, seen) ==
    IF p > Len_df(d) THEN <<>>
    ELSE <<group_index(d, p) \in seen>>
         \o duplicated_from(d, p + 1, seen \cup {group_index(d, p)})

\* Equality of two cells in the hash table behind Series.duplicated(),
\* which holds the objects themselves: None equals None and NaN equals
\* NaN, but a None and a NaN are two values.
hashed_eq(a, b) ==
    IF isna(a) \/ isna(b) THEN a.kind = b.kind
    ELSE cell_eq(a, b)

\* Series.duplicated(keep="first") on one column: a cell is marked when an
\* earlier cell equals it.
series_duplicated(cells) ==
    [p \in 1..Len(cells) |-> \E q \in 1..(p - 1) : hashed_eq(cells[q], cells[p])]

\* df.duplicated(): an empty frame gives an empty Series; a frame of one
\* column takes the column's own duplicated(); a frame of several columns
\* goes through factorize() and the group ids.
duplicated(d) ==
    IF d.columns = <<>> \/ Len_df(d) = 0 THEN <<>>
    ELSE IF Len(d.columns) = 1 THEN series_duplicated(d.data[d.columns[1]])
    ELSE duplicated_from(d, 1, {})

\* A variant that numbers the rows from 1.
RECURSIVE nonzero_one_based(_, _)
nonzero_one_based(mask, p) ==
    IF p > Len(mask) THEN <<>>
    ELSE (IF mask[p] THEN <<p>> ELSE <<>>) \o nonzero_one_based(mask, p + 1)

\* mask.to_numpy().nonzero()[0].tolist(): the 0-based positions of True.
RECURSIVE nonzero(_, _)
nonzero(mask, p) ==
    IF p > Len(mask) THEN <<>>
    ELSE (IF mask[p] THEN <<p - 1>> ELSE <<>>) \o nonzero(mask, p + 1)

detect_duplicates(d) ==
    LET duplicate_count == Len(nonzero(duplicated(d), 1))
        duplicate_indices == nonzero(duplicated(d), 1)
    IN  [count |-> duplicate_count,
         indices |-> IF duplicate_count > 0 THEN duplicate_indices ELSE <<>>]

----------------------------------------------------------------------------
\* The specification of the table detectors: one DataFrame, one detector
\* call on it, and the summary formatted from a type-mismatch result.

\* The objects a cell of each column is drawn from.
AgeCells == {NoneCell, IntCell(30), StrCell(<<"x">>)}
SalaryCells == {NoneCell, IntCell(100), StrCell(<<"b", "a", "d">>), FloatCell(2005)}

TableColumns == <<"Age", "Salary">>

\* Every DataFrame of at most n rows over the two columns.
DataFrames(n) ==
    {DataFrame(TableColumns, [c \in {"Age", "Salary"} |-> IF c = "Age" THEN a ELSE s]) :
        <<a, s>> \in UNION {[1..k -> AgeCells] \X [1..k -> SalaryCells] : k \in 0..n}}

Nothing == PyStr("")

\* Every DataFrame of at most n rows with the one column Age, where a None
\* and a NaN, and an int and the float equal to it, can stand in one
\* object column.
OneColumnCells == {NoneCell, NaNCell, IntCell(30), FloatCell(300), StrCell(<<"x">>)}

OneColumnFrames(n) ==
    {DataFrame(<<"Age">>, [c \in {"Age"} |-> a]) :
        a \in UNION {[1..k -> OneColumnCells] : k \in 0..n}}

Init ==
    /\ df \in DataFrames(MaxRows) \cup OneColumnFrames(MaxRows)
    /\ arg = Nothing
    /\ call = "start"
    /\ out = Nothing
    /\ prev = Nothing

DetectMissingValues ==
    /\ call = "start"
    /\ call' = "detect_missing_values"
    /\ out' = detect_missing_values(df)
    /\ UNCHANGED <<df, arg, prev>>

DetectDataTypeMismatches ==
    /\ call = "start"
    /\ call' = "detect_data_type_mismatches"
    /\ \E sorted \in sorted_counts(df) :
          out' = detect_data_type_mismatches(df, sorted)
    /\ UNCHANGED <<df, arg, prev>>

\* run_data_quality_checks lines 202-206: the summary of the detailed result.
FormatDataTypeMismatches ==
    /\ call = "detect_data_type_mismatches"
    /\ call' = "format_data_type_mismatches"
    /\ prev' = out
    /\ out' = format_data_type_mismatches(out)
    /\ UNCHANGED <<df, arg>>

DetectDuplicates ==
    /\ call = "start"
    /\ call' = "detect_duplicates"
    /\ out' = detect_duplicates(df)
    /\ UNCHANGED <<df, arg, prev>>

Next ==
    \/ DetectMissingValues
    \/ DetectDataTypeMismatches
    \/ FormatDataTypeMismatches
    \/ DetectDuplicates

Spec == Init /\ [][Next]_vars

----------------------------------------------------------------------------
\* Properties of the table detectors.

\* The cells of a column, the missing ones and the type names present.
CellsOf(col) == IF col \in Range(df.columns) THEN df.data[col] ELSE <<>>
MissingAt(col) == {p \in 1..Len(CellsOf(col)) : isna(CellsOf(col)[p])}
PresentAt(col) == (1..Len(CellsOf(col))) \ MissingAt(col)
TagsOf(col) == {type_name(CellsOf(col)[p]) : p \in PresentAt(col)}
TagCount(col, tag) == Cardinality({p \in PresentAt(col) : type_name(CellsOf(col)[p]) = tag})
FirstAt(col, tag) ==
    CHOOSE p \in PresentAt(col) :
        /\ type_name(CellsOf(col)[p]) = tag
        /\ \A q \in PresentAt(col) : type_name(CellsOf(col)[q]) = tag => p <= q

StrictlyAscending(s) == \A i, j \in 1..Len(s) : i < j => s[i] < s[j]

\* The columns of df with a missing cell, in column order.
ColumnsWithMissing == SelectSeq(df.columns, LAMBDA c : MissingAt(c) # {})

\* The part of C2 that is not about the percentage: detect_missing_values
\* returns the str "None" exactly when no column has a missing cell, and
\* never an empty list; otherwise one entry per column with a missing
\* cell, in column order, with the number of missing cells of the column.
MissingReportShape ==
    call = "detect_missing_values" =>
        /\ out.t \in {"str", "list"}
        /\ (out = NoneSentinel) <=> (\A c \in Range(df.columns) : MissingAt(c) = {})
        /\ out.t = "list" =>
              /\ out.v # <<>>
              /\ Len(out.v) = Len(ColumnsWithMissing)
              /\ \A i \in 1..Len(out.v) :
                    /\ out.v[i].Column = ColumnsWithMissing[i]
                    /\ out.v[i].Missing_Count = Cardinality(MissingAt(out.v[i].Column))
                    /\ out.v[i].Missing_Count > 0

\* The entries of the report returned by detect_missing_values.
ReportEntries ==
    IF call = "detect_missing_values" /\ out.t = "list" THEN Range(out.v) ELSE {}

\* Two floats are equal or next to each other.
WithinOneUnit(x, y) ==
    \/ x = y
    \/ x = rounded(y.bits, y.exp, TRUE)
    \/ y = rounded(x.bits, x.exp, TRUE)

\* C2 as stated: the report has the shape above, and every entry's
\* missing_percentage is 100 * missing_count / row_count.
C2_AsStated ==
    /\ MissingReportShape
    /\ \A e \in ReportEntries :
          e.Missing_Percentage = float_div(100 * e.Missing_Count, Len_df(df))

\* C2 as amended: the report has the shape above, and every entry's
\* missing_percentage is the float (missing_count / row_count) * 100, the
\* quotient rounded before it is multiplied: equal to the float
\* 100 * missing_count / row_count or next to it, and 100.0 when every
\* cell of the column is missing.
C2_MissingReport ==
    /\ MissingReportShape
    /\ \A e \in ReportEntries :
          /\ e.Missing_Percentage
                = float_mul(float_div(e.Missing_Count, Len_df(df)), 100)
          /\ WithinOneUnit(e.Missing_Percentage,
                           float_div(100 * e.Missing_Count, Len_df(df)))
          /\ e.Missing_Count = Len_df(df)
                => e.Missing_Percentage = float_div(100, 1)

\* Only the second column has missing cells, 2 of 3: the first is left out
\* of the report and the percentage, 66.66666666666666, is the float below
\* 200 / 3.
C2_Witness ==
    /\ call = "detect_missing_values"
    /\ Len_df(df) = 3
    /\ MissingAt("Age") = {}
    /\ out.t = "list"
    /\ Len(out.v) = 1
    /\ out.v[1].Column = "Salary"
    /\ out.v[1].Missing_Count = 2
    /\ float_div(200, 3) = rounded(out.v[1].Missing_Percentage.bits,
                                   out.v[1].Missing_Percentage.exp, TRUE)

\* Two rows are equal when their cells are equal in every column, two
\* missing cells of a column counting as equal.
RowsEqual(p, q) == \A c \in Range(df.columns) : cell_eq(CellsOf(c)[p], CellsOf(c)[q])

\* C3 as stated: detect_duplicates flags row i exactly when an earlier row
\* equals it in every column, two missing cells of a column counting as
\* equal, so a first occurrence is never flagged; indices is strictly
\* ascending, count is its length, and it is empty when count is 0.
C3_AsStated ==
    call = "detect_duplicates" =>
        /\ \A i \in 0..(Len_df(df) - 1) :
              (i \in Range(out.indices)) <=> (\E j \in 0..(i - 1) : RowsEqual(j + 1, i + 1))
        /\ Range(out.indices) \subseteq 0..(Len_df(df) - 1)
        /\ StrictlyAscending(out.indices)
        /\ out.count = Len(out.indices)
        /\ out.count = 0 => out.indices = <<>>

\* C5: detect_data_type_mismatches has an entry for a column exactly when
\* its non-missing cells carry at least 2 distinct type names (a column of
\* missing cells only, or of one type only, is omitted); and when no
\* column is flagged the summary is the str "None".
C5_FlaggedColumns ==
    /\ call = "detect_data_type_mismatches" =>
          /\ out.t = "dict"
          /\ Keys(out.v) \subseteq Range(df.columns)
          /\ \A c \in Range(df.columns) :
                HasKey(out.v, c) <=> Cardinality(TagsOf(c)) >= 2
    /\ call = "format_data_type_mismatches" =>
          ((\A c \in Range(df.columns) : Cardinality(TagsOf(c)) < 2)
              => out = NoneSentinel)

\* One column is flagged while the other, str cells next to a missing
\* cell, is omitted.
C5_Witness ==
    /\ call = "detect_data_type_mismatches"
    /\ HasKey(out.v, "Age")
    /\ ~HasKey(out.v, "Salary")
    /\ MissingAt("Salary") # {}
    /\ TagsOf("Salary") = {"str"}
    /\ Cardinality(PresentAt("Salary")) = 2

\* The counts of a type_counts dict never grow from one key to the next.
Descending(type_counts) ==
    \A i, j \in 1..Len(type_counts) : i < j => type_counts[i][2] >= type_counts[j][2]

SalaryScenario == <<IntCell(100), StrCell(<<"b", "a", "d">>), FloatCell(2005)>>

\* C7 as stated: for Salary = [100, "bad", 200.5] the dominant type is a
\* numeric one and the mismatched indices are exactly {str: [1]}.
C7_AsStated ==
    (call = "detect_data_type_mismatches" /\ CellsOf("Salary") = SalaryScenario) =>
        /\ HasKey(out.v, "Salary")
        /\ Get(out.v, "Salary").dominant_type \in {"int", "float"}
        /\ Get(out.v, "Salary").mixed_indices = << <<"str", <<1>>>> >>

\* The mismatched indices of the scenario when every cell is reported.
ScenarioIndices == << <<"int", <<0>>>>, <<"str", <<1>>>>, <<"float", <<2>>>> >>

\* C7 as amended: the three cells carry the three type names int, str and
\* float, one each, so the column is flagged with every count 1; the
\* dominant type is one of the three, and the rows of the other two are
\* both reported, each under its own type name, in row order: two of the
\* rows 0, 1 and 2, never row 1 alone.
C7_SalaryScenario ==
    (call = "detect_data_type_mismatches" /\ CellsOf("Salary") = SalaryScenario) =>
        /\ HasKey(out.v, "Salary")
        /\ Get(out.v, "Salary").dominant_type \in {"int", "str", "float"}
        /\ Range(Get(out.v, "Salary").type_counts)
              = {<<"int", 1>>, <<"str", 1>>, <<"float", 1>>}
        /\ Len(Get(out.v, "Salary").type_counts) = 3
        /\ Get(out.v, "Salary").mixed_indices
              = SelectSeq(ScenarioIndices,
                          LAMBDA e : e[1] # Get(out.v, "Salary").dominant_type)

C7_Witness ==
    /\ call = "detect_data_type_mismatches"
    /\ CellsOf("Salary") = SalaryScenario
    /\ HasKey(out.v, "Salary")
    /\ Len(Get(out.v, "Salary").mixed_indices) = 2
    /\ \E i \in 1..2 : Get(out.v, "Salary").mixed_indices[i] = <<"float", <<2>>>>

\* The sum of the counts of a type_counts dict.
RECURSIVE TotalCount(_)
TotalCount(type_counts) ==
    IF type_counts = <<>> THEN 0
    ELSE Head(type_counts)[2] + TotalCount(Tail(type_counts))

\* The 0-based row indices of the non-missing cells of a column that carry
\* a type name.
IndicesOfTag(col, tag) ==
    {p - 1 : p \in {q \in PresentAt(col) : type_name(CellsOf(col)[q]) = tag}}

----------------------------------------------------------------------------
\* detect_duplicates on the frames of C4: base rows followed by copies of
\* some of them, built the way dataset_gen.py lines 30-31 build one
\* (df.sample, then pd.concat with ignore_index). The script itself goes
\* on to overwrite Salary cells and to shuffle the rows (lines 33-38) and
\* never calls the detector; the frames here are inputs of
\* detect_duplicates, not the file the script saves.

\* Every sequence of k distinct values of S.
DistinctSeqs(S, k) ==
    {q \in [1..k -> S] : \A i, j \in 1..k : i # j => q[i] # q[j]}

\* pd.concat([df, duplicate_rows], ignore_index=True), duplicate_rows being
\* the rows of df at the positions picks.
concat_rows(d, picks) ==
    [columns |-> d.columns,
     data |-> [c \in Range(d.columns) |->
                  d.data[c] \o [i \in 1..Len(picks) |-> d.data[c][picks[i]]]]]

\* The input is base ++ copies for a base frame of 1..MaxBase rows over the
\* two columns, or of 1..MaxSingle rows over one column, and up to
\* MaxCopies distinct sampled rows of it; arg records the number of
\* base rows and the positions sampled.
InitGen ==
    /\ \E base \in {d \in DataFrames(MaxBase) \cup OneColumnFrames(MaxSingle) :
                      Len_df(d) >= 1} :
          \E k \in 1..MaxCopies :
             /\ k <= Len_df(base)
             /\ \E picks \in DistinctSeqs(1..Len_df(base), k) :
                   /\ df = concat_rows(base, picks)
                   /\ arg = [base_rows |-> Len_df(base), picks |-> picks]
    /\ call = "start"
    /\ out = Nothing
    /\ prev = Nothing

DetectDuplicatesOfGenerated ==
    /\ call = "start"
    /\ call' = "detect_duplicates"
    /\ out' = detect_duplicates(df)
    /\ UNCHANGED <<df, arg, prev>>

NextGen == DetectDuplicatesOfGenerated

SpecGen == InitGen /\ [][NextGen]_vars

\* The 0-based positions n, n+1, ..., n+k-1.
Positions(n, k) == [i \in 1..k |-> n + i - 1]

\* Row q repeats row p: the two rows are equal, except that in a dataset
\* of one column a None and a NaN are two different values.
Repeats(p, q) ==
    /\ RowsEqual(p, q)
    /\ Len(df.columns) = 1 =>
          \A c \in Range(df.columns) :
             isna(CellsOf(c)[p]) => CellsOf(c)[p] = CellsOf(c)[q]

\* The base rows that repeat an earlier base row, as 0-based positions.
BaseRepeats ==
    {i \in 0..(arg.base_rows - 1) : \E j \in 0..(i - 1) : Repeats(j + 1, i + 1)}

\* C4 as stated: on base_rows ++ copies, count is the number of appended
\* copies and indices are exactly the positions of the appended copies.
C4_AsStated ==
    call = "detect_duplicates" =>
        /\ out.count = Len(arg.picks)
        /\ out.indices = Positions(arg.base_rows, Len(arg.picks))

\* C4 as amended: every appended copy is flagged, and so is every base row
\* that repeats an earlier base row (in a dataset of one column a None and
\* a NaN do not repeat each other): indices are those base positions
\* followed by the positions of all appended copies, ascending, and count
\* is their number; with pairwise distinct base rows that is the appended
\* copies alone.
C4_GeneratedDuplicates ==
    call = "detect_duplicates" =>
        /\ Range(out.indices)
              = BaseRepeats \cup Range(Positions(arg.base_rows, Len(arg.picks)))
        /\ StrictlyAscending(out.indices)
        /\ out.count = Cardinality(BaseRepeats) + Len(arg.picks)
        /\ BaseRepeats = {} =>
              /\ out.count = Len(arg.picks)
              /\ out.indices = Positions(arg.base_rows, Len(arg.picks))

\* Two distinct base rows, both copied in reverse order: the two appended
\* rows are flagged, the base rows are not.
C4_Witness ==
    /\ call = "detect_duplicates"
    /\ arg.base_rows = 2
    /\ arg.picks = <<2, 1>>
    /\ BaseRepeats = {}
    /\ out = [count |-> 2, indices |-> <<2, 3>>]

----------------------------------------------------------------------------
\* detect_invalid_inputs (backend.py 135-157).
\*
\* Text is a sequence of one-character strings. A pattern is [atoms,
\* dollar]: atoms is a sequence of [cls, rep], a character class ("digit"
\* for \d, "lower" for [a-z]) with a repetition ("one", "plus", "star"),
\* and dollar tells whether the pattern ends with $.

DigitChars == <<"0", "1", "2", "3", "4", "5", "6", "7", "8", "9">>

LowerChars ==
    {"a", "b", "c", "d", "e", "f", "g", "h", "i", "j", "k", "l", "m",
     "n", "o", "p", "q", "r", "s", "t", "u", "v", "w", "x", "y", "z"}

\* The decimal digits of a natural number.
RECURSIVE Digits(_)
Digits(n) ==
    IF n < 10 THEN <<DigitChars[n + 1]>>
    ELSE Digits(n \div 10) \o <<DigitChars[(n % 10) + 1]>>

Abs(n) == IF n < 0 THEN -n ELSE n

\* str(value) of a cell, which is what astype(str) puts in its place: a
\* missing cell becomes the text "None" or "nan", a float is written with
\* its fractional digit.
str_of(c) ==
    LET sign == IF c.num < 0 THEN <<"-">> ELSE <<>>
    IN  CASE c.kind = "NoneType" -> <<"N", "o", "n", "e">>
          [] c.kind = "nan" -> <<"n", "a", "n">>
          [] c.kind = "int" -> sign \o Digits(Abs(c.num) \div 10)
          [] c.kind = "float" ->
                sign \o Digits(Abs(c.num) \div 10) \o <<".">> \o Digits(Abs(c.num) % 10)
          [] c.kind = "bool" ->
                IF c.num # 0 THEN <<"T", "r", "u", "e">> ELSE <<"F", "a", "l", "s", "e">>
          [] c.kind = "str" -> c.chars

\* The characters of the model's texts are ASCII, where \d is 0-9; "any"
\* is the dot, which matches every character but a newline.
in_class(ch, cls) ==
    CASE cls = "digit" -> ch \in Range(DigitChars)
      [] cls = "lower" -> ch \in LowerChars
      [] cls = "any" -> ch # "\n"

\* The positions an atom can end at when it starts at position p of text
\* (a position is the number of characters consumed so far).
atom_ends(atom, text, p) ==
    LET runs == {q \in (p + 1)..Len(text) :
                    \A i \in (p + 1)..q : in_class(text[i], atom.cls)}
    IN  CASE atom.rep = "one" -> runs \cap {p + 1}
          [] atom.rep = "plus" -> runs
          [] atom.rep = "star" -> runs \cup {p}

\* The positions the atoms from the k-th on can end at, started at any of
\* the positions from.
RECURSIVE match_ends(_, _, _, _)
match_ends(atoms, k, text, from) ==
    IF k > Len(atoms) THEN from
    ELSE match_ends(atoms, k + 1, text,
                    UNION {atom_ends(atoms[k], text, p) : p \in from})

\* A variant that accepts only a match of the whole text (re.fullmatch).
re_match_whole(pattern, text) == Len(text) \in match_ends(pattern.atoms, 1, text, {0})

\* $ at position e of text: the end of the text, or just before a newline
\* that ends the text.
at_dollar(text, e) ==
    \/ e = Len(text)
    \/ e = Len(text) - 1 /\ text[Len(text)] = "\n"

\* Series.str.match, that is re.match: the pattern has to match at the
\* start of the text and may stop anywhere, unless it ends with $.
re_match(pattern, text) ==
    \E e \in match_ends(pattern.atoms, 1, text, {0}) : pattern.dollar => at_dollar(text, e)

\* ~df[col].astype(str).str.match(rule, na=False)
invalid_mask(d, col, rule) ==
    [p \in 1..Len(d.data[col]) |-> ~re_match(rule, str_of(d.data[col][p]))]

\* The values list of lines 145-150: the flagged cells, a NaN (or an
\* infinite float) as its text.
safe_value(c) == IF c.kind = "nan" THEN StrCell(<<"n", "a", "n">>) ELSE c

\* The entry of lines 152-156 for one column.
invalid_entry(d, col, rule) ==
    LET invalid_indices == nonzero(invalid_mask(d, col, rule), 1)
    IN  [count |-> Len(invalid_indices),
         indices |-> invalid_indices,
         values |-> [i \in 1..Len(invalid_indices) |->
                        safe_value(d.data[col][invalid_indices[i] + 1])]]

\* The loop over rules.items(), from the k-th rule on.
RECURSIVE invalid_entries(_, _, _)
invalid_entries(d, rules, k) ==
    IF k > Len(rules) THEN <<>>
    ELSE LET col == rules[k][1]
             rule == rules[k][2]
         IN  (IF col \in Range(d.columns)
                 /\ \E p \in 1..Len(d.data[col]) : invalid_mask(d, col, rule)[p]
              THEN << <<col, invalid_entry(d, col, rule)>> >>
              ELSE <<>>) \o invalid_entries(d, rules, k + 1)

detect_invalid_inputs(d, rules) ==
    IF invalid_entries(d, rules, 1) = <<>> THEN NoneSentinel
    ELSE PyDict(invalid_entries(d, rules, 1))

----------------------------------------------------------------------------
\* The specification of the pattern validator: a DataFrame, a mapping of
\* column names to patterns, and one call of detect_invalid_inputs.

\* \d+ , ^\d+$ and [a-z]+
DigitsPattern == [atoms |-> <<[cls |-> "digit", rep |-> "plus"]>>, dollar |-> FALSE]
AnchoredDigitsPattern == [atoms |-> <<[cls |-> "digit", rep |-> "plus"]>>, dollar |-> TRUE]
LowerPattern == [atoms |-> <<[cls |-> "lower", rep |-> "plus"]>>, dollar |-> FALSE]

Patterns == {DigitsPattern, AnchoredDigitsPattern, LowerPattern}

\* The column names a mapping may use; "Ghost" is no column of the frame.
RuleColumns == {"Age", "Salary", "Ghost"}

\* Every mapping of at most two columns, as a dict in insertion order.
ValidationRules ==
    {<<>>}
    \cup {<< <<c, r>> >> : c \in RuleColumns, r \in Patterns}
    \cup {<< <<c1, r1>>, <<c2, r2>> >> :
             <<c1, r1, c2, r2>> \in
                 {q \in RuleColumns \X Patterns \X RuleColumns \X Patterns : q[1] # q[3]}}

InitInvalid ==
    /\ df \in DataFrames(MaxRows - 1)
    /\ arg \in ValidationRules
    /\ call = "start"
    /\ out = Nothing
    /\ prev = Nothing

DetectInvalidInputs ==
    /\ call = "start"
    /\ call' = "detect_invalid_inputs"
    /\ out' = detect_invalid_inputs(df, arg)
    /\ UNCHANGED <<df, arg, prev>>

NextInvalid == DetectInvalidInputs

SpecInvalid == InitInvalid /\ [][NextInvalid]_vars

\* The rows of a column whose text the pattern does not match as a whole.
FailsWhole(col, rule) ==
    {p - 1 : p \in {q \in 1..Len(CellsOf(col)) : ~re_match_whole(rule, str_of(CellsOf(col)[q]))}}

\* C10: for each mapped column of the dataset detect_invalid_inputs flags
\* exactly the rows whose cell text (a missing cell's text included) the
\* pattern does not match over the whole text; unknown columns are
\* ignored; count = len(indices) = len(values), indices ascending; the
\* result is "None" when the mapping is empty or no cell fails.
C10_AsStated ==
    call = "detect_invalid_inputs" =>
        LET mapped == {k \in 1..Len(arg) : arg[k][1] \in Range(df.columns)}
            failing == {k \in mapped : FailsWhole(arg[k][1], arg[k][2]) # {}}
        IN  /\ (out = NoneSentinel) <=> (failing = {})
            /\ out.t = "dict" =>
                  /\ Keys(out.v) = {arg[k][1] : k \in failing}
                  /\ \A k \in failing :
                        LET e == Get(out.v, arg[k][1])
                        IN  /\ Range(e.indices) = FailsWhole(arg[k][1], arg[k][2])
                            /\ StrictlyAscending(e.indices)
                            /\ e.count = Len(e.indices)
                            /\ e.count = Len(e.values)

----------------------------------------------------------------------------
\* check_consistency (backend.py 159-192).
\*
\* A rule is [name, kind, column, op, value, upper]; its kind is the shape
\* of the predicate:
\*   "between"  value <= pd.to_numeric(row[column], errors="coerce") <= upper
\*              if column in row.index else True        (line 219)
\*   "compare"  pd.to_numeric(row[column], errors="coerce") op value
\*              if column in row.index else True        (lines 220, 317-319)
\*   "raw"      row[column] op value, a caller's predicate that neither
\*              coerces the cell nor tests for the column.
\*   "in_set"   row[column] in ["apple", ...] if column in row else True
\*                                                      (line 221)
\* Rule values are whole numbers, kept in tenths like the cells.
\* The outcome of a predicate on a row is [raised, value, error]: whether
\* it raised, the boolean it returned, the text of the exception.

Returned(b) == [raised |-> FALSE, value |-> b, error |-> ""]
Raised(text) == [raised |-> TRUE, value |-> FALSE, error |-> text]

\* The number pd.to_numeric returns, as [nan, inf, big, num, rest]: NaN;
\* an infinity by its sign (inf is -1 or 1, else 0); a finite value of
\* 10^8 or more in size by its sign (big is -1 or 1, else 0); any other
\* value v by num, the largest whole number of tenths not above v, and
\* rest, TRUE when v lies strictly between num and num + 1 tenths. That
\* is what a comparison with a whole number below 10^8 in size needs, and
\* the rules compare with nothing else.
NaN == [nan |-> TRUE, inf |-> 0, big |-> 0, num |-> 0, rest |-> FALSE]
Number(tenths) == [nan |-> FALSE, inf |-> 0, big |-> 0, num |-> tenths, rest |-> FALSE]
Infinity(sign) == [nan |-> FALSE, inf |-> sign, big |-> 0, num |-> 0, rest |-> FALSE]
Big(sign) == [nan |-> FALSE, inf |-> 0, big |-> sign, num |-> 0, rest |-> FALSE]

\* A value strictly between 0 and a tenth in size.
Tiny(negative) ==
    [nan |-> FALSE, inf |-> 0, big |-> 0,
     num |-> IF negative THEN -1 ELSE 0, rest |-> TRUE]

\* precise_xstrtod reads at most this many digits into the number and at
\* most this many into the exponent.
max_digits == 17

digit(ch) == CHOOSE d \in 0..9 : DigitChars[d + 1] = ch

\* The whole number written by a text of at most 9 digits.
RECURSIVE digits_value(_)
digits_value(cs) ==
    IF cs = <<>> THEN 0
    ELSE 10 * digits_value(SubSeq(cs, 1, Len(cs) - 1)) + digit(cs[Len(cs)])

IsDigits(cs) == cs # <<>> /\ \A i \in 1..Len(cs) : cs[i] \in Range(DigitChars)

RECURSIVE pow10(_)
pow10(k) == IF k = 0 THEN 1 ELSE 10 * pow10(k - 1)

\* The number of digits a text starts with.
digits_prefix(cs) ==
    LET others == {i \in 1..Len(cs) : cs[i] \notin Range(DigitChars)}
    IN  IF others = {} THEN Len(cs)
        ELSE (CHOOSE i \in others : \A j \in others : i <= j) - 1

\* A text of digits without the zeros it starts with.
strip_zeros(ds) ==
    LET others == {i \in 1..Len(ds) : ds[i] # "0"}
    IN  IF others = {} THEN <<>>
        ELSE SubSeq(ds, CHOOSE i \in others : \A j \in others : i <= j, Len(ds))

\* The digits from the first to the last that is not a zero.
significant(ds) ==
    LET others == {i \in 1..Len(ds) : ds[i] # "0"}
    IN  IF others = {} THEN <<>>
        ELSE SubSeq(ds, CHOOSE i \in others : \A j \in others : i <= j,
                        CHOOSE i \in others : \A j \in others : j <= i)

\* The first n digits of a text of digits, zeros added when it is shorter.
lead(ds, n) == [i \in 1..n |-> IF i <= Len(ds) THEN ds[i] ELSE "0"]

\* a < b for two texts of digits of one length.
digits_less(a, b) ==
    \E i \in 1..Len(a) :
        /\ digit(a[i]) < digit(b[i])
        /\ \A j \in 1..(i - 1) : a[j] = b[j]

\* a <= b for two whole numbers written without leading zeros.
number_le(a, b) ==
    \/ Len(a) < Len(b)
    \/ Len(a) = Len(b) /\ (a = b \/ digits_less(a, b))

\* The first 13 digits of 2^1024 - 2^970 = 1.7976931348623158...e308,
\* from where on a product rounds to infinity, and of 2^-1075 =
\* 2.4703282292062327...e-324, up to where a quotient rounds to 0.
OverflowDigits == <<"1", "7", "9", "7", "6", "9", "3", "1", "3", "4", "8", "6", "2">>
UnderflowDigits == <<"2", "4", "7", "0", "3", "2", "8", "2", "2", "9", "2", "0", "6">>

\* 2^63 and 2^64 - 1, the sizes of the smallest int64 and the largest
\* uint64.
Int64Digits ==
    <<"9", "2", "2", "3", "3", "7", "2", "0", "3", "6", "8", "5", "4", "7", "7",
      "5", "8", "0", "8">>
UInt64Digits ==
    <<"1", "8", "4", "4", "6", "7", "4", "4", "0", "7", "3", "7", "0", "9", "5",
      "5", "1", "6", "1", "5">>

\* isspace_ascii: the space and the five characters from the tab to the
\* carriage return, the vertical tab among them.
WhitespaceChars == {" ", "\t", "\n", "", "\f", "\r"}

\* The text without the whitespace around it.
strip(cs) ==
    LET others == {i \in 1..Len(cs) : cs[i] \notin WhitespaceChars}
    IN  IF others = {} THEN <<>>
        ELSE SubSeq(cs, CHOOSE i \in others : \A j \in others : i <= j,
                        CHOOSE i \in others : \A j \in others : j <= i)

\* Lower case of the letters of the words inf and infinity.
lower(ch) ==
    CASE ch = "A" -> "a" [] ch = "F" -> "f" [] ch = "I" -> "i"
      [] ch = "N" -> "n" [] ch = "T" -> "t" [] ch = "Y" -> "y"
      [] OTHER -> ch

\* On which side of a limit the size of a computed float lies, when the
\* digits of the exact value start with sig and the first 13 digits of
\* the limit are known. The float is within a few units in the 16th digit
\* of the exact value, so 13 digits decide unless they are those of the
\* limit and more digits follow; that case has no value here.
side(sig, limit) ==
    CASE digits_less(lead(sig, Len(limit)), limit) -> "below"
      [] digits_less(limit, lead(sig, Len(limit))) -> "above"
      [] \A i \in (Len(limit) + 1)..Len(sig) : sig[i] = "0" -> "below"

\* sig * 10^exponent, a value from a tenth up to 10^8, where the float
\* computed is the float nearest to that value: sig is a double and so is
\* the power of ten it is multiplied or divided by. cut digits of sig
\* stand before the digit of the tenths or are it.
exact_value(sig, exponent, negative) ==
    LET cut == Len(sig) + exponent + 1
        whole == IF cut >= Len(sig) THEN digits_value(sig) * pow10(cut - Len(sig))
                 ELSE digits_value(SubSeq(sig, 1, cut))
        rest == \E i \in (cut + 1)..Len(sig) : sig[i] # "0"
    IN  [nan |-> FALSE, inf |-> 0, big |-> 0,
         num |-> IF ~negative THEN whole ELSE IF rest THEN -whole - 1 ELSE -whole,
         rest |-> rest]

\* number * 10^exponent as precise_xstrtod computes it, for the digits
\* sig of a number above 0 and an exponent of at most 308: number
\* times e[exponent], or number divided by e[-exponent], in two steps
\* below -308. A product that rounds to infinity is a range error and
\* leaves NaN; a quotient can round to 0. With m digits before the point
\* the value lies from 10^(m-1) up to 10^m. Where rounding could tell on
\* a comparison with a whole number, from a tenth up to 10^8, the value
\* is given for sig of at most 13 digits, its last zeros aside: they make
\* number and every step exact. Other sig have no value there.
finite_value(sig, exponent, negative) ==
    LET m == Len(sig) + exponent
    IN  CASE m >= 310 -> NaN
          [] m = 309 ->
                IF side(sig, OverflowDigits) = "below"
                THEN Big(IF negative THEN -1 ELSE 1) ELSE NaN
          [] m \in 9..308 -> Big(IF negative THEN -1 ELSE 1)
          [] m \in 0..8 /\ Len(significant(sig)) <= 13 ->
                exact_value(sig, exponent, negative)
          [] m \in -322..-1 -> Tiny(negative)
          [] m = -323 ->
                IF side(sig, UnderflowDigits) = "below"
                THEN Number(0) ELSE Tiny(negative)
          [] m < -323 -> Number(0)

\* The float of the digits kept and the exponent: an exponent above 308
\* is a range error, whatever the digits; 0 stays 0.
float_value(kept, exponent, negative) ==
    IF exponent > 308 THEN NaN
    ELSE IF strip_zeros(kept) = <<>> THEN Number(0)
    ELSE finite_value(strip_zeros(kept), exponent, negative)

InfinityWords == {<<"i", "n", "f">>, <<"i", "n", "f", "i", "n", "i", "t", "y">>}

\* The exponent written by the text after e or E: a sign and digits. ok
\* is FALSE when no digits are there or something else is. The value is
\* given for at most max_digits digits that fit the int they are read
\* into, here at most 9 after the zeros they start with.
signed_digits(t) ==
    LET digits == IF t # <<>> /\ t[1] \in {"+", "-"} THEN Tail(t) ELSE t
    IN  CASE ~IsDigits(digits) -> [ok |-> FALSE, value |-> 0]
          [] Len(digits) <= max_digits /\ Len(strip_zeros(digits)) <= 9 ->
                [ok |-> TRUE,
                 value |-> IF t[1] = "-" THEN -digits_value(strip_zeros(digits))
                           ELSE digits_value(strip_zeros(digits))]

\* The exponent written by what follows the digits of a number: nothing
\* (0), or e/E and a signed whole number.
exponent_of(tail) ==
    IF tail = <<>> THEN [ok |-> TRUE, value |-> 0]
    ELSE IF tail[1] \notin {"e", "E"} THEN [ok |-> FALSE, value |-> 0]
    ELSE signed_digits(Tail(tail))

\* The digits that go into the number, max_digits at most and the zeros
\* a text starts with among them: ni digits before the point, then nf
\* after it. Every other digit before the point raises the exponent by
\* one, every digit kept after the point lowers it by one, and the other
\* digits after the point are dropped.
kept_digits(ni, nf) ==
    LET before == IF ni < max_digits THEN ni ELSE max_digits
        room == max_digits - before
    IN  [before |-> before,
         after |-> IF nf < room THEN nf ELSE room]

\* The float of int_digits, the first nf characters of rest as the digits
\* after the point, and the exponent the remainder of rest writes. No
\* digit at all, or an exponent that is not one, leaves NaN.
parse_value(int_digits, rest, nf, negative) ==
    LET e == exponent_of(SubSeq(rest, nf + 1, Len(rest)))
        kept == kept_digits(Len(int_digits), nf)
    IN  IF Len(int_digits) + nf = 0 \/ ~e.ok THEN NaN
        ELSE float_value(SubSeq(int_digits, 1, kept.before)
                            \o SubSeq(rest, 1, kept.after),
                         (Len(int_digits) - kept.before) - kept.after + e.value,
                         negative)

\* A text of digits alone (maybe_int): the float is computed first and a
\* range error there leaves NaN; then the value is int(text), every digit
\* counted, when it is an int64 or a uint64, and the float when it is not.
int_value(digits, negative) ==
    LET sig == strip_zeros(digits)
    IN  IF parse_value(digits, <<>>, 0, negative).nan THEN NaN
        ELSE IF Len(sig) <= 8
        THEN Number(IF negative THEN -10 * digits_value(sig) ELSE 10 * digits_value(sig))
        ELSE IF number_le(sig, IF negative THEN Int64Digits ELSE UInt64Digits)
        THEN Big(IF negative THEN -1 ELSE 1)
        ELSE parse_value(digits, <<>>, 0, negative)

\* body starts with ni digits; a "." after them starts the fraction, and
\* nothing after them leaves a text of digits alone.
parse_digits(body, ni, negative) ==
    IF ni < Len(body) /\ body[ni + 1] = "."
    THEN parse_value(SubSeq(body, 1, ni), SubSeq(body, ni + 2, Len(body)),
                     digits_prefix(SubSeq(body, ni + 2, Len(body))), negative)
    ELSE IF ni = Len(body) /\ ni > 0
    THEN int_value(body, negative)
    ELSE parse_value(SubSeq(body, 1, ni), SubSeq(body, ni + 1, Len(body)),
                     0, negative)

\* A sign, then the number.
parse_number(t) ==
    LET signed == t # <<>> /\ t[1] \in {"+", "-"}
    IN  parse_digits(IF signed THEN Tail(t) ELSE t,
                     digits_prefix(IF signed THEN Tail(t) ELSE t),
                     t # <<>> /\ t[1] = "-")

\* The number a text is parsed to (maybe_convert_numeric with
\* coerce_numeric): one of the words inf, infinity with an optional sign,
\* in any case; or, whitespace around it skipped, a sign, digits with an
\* optional "." among them (at least one digit), and an optional exponent
\* e/E, sign, digits. Every other text is NaN.
parse_float(cs) ==
    LET word == [i \in 1..Len(cs) |-> lower(cs[i])]
    IN  IF word # <<>> /\ word[1] \in {"+", "-"} /\ Tail(word) \in InfinityWords
        THEN Infinity(IF word[1] = "-" THEN -1 ELSE 1)
        ELSE IF word \in InfinityWords THEN Infinity(1)
        ELSE parse_number(strip(cs))

\* pd.to_numeric(value, errors="coerce") of one cell: a number as it is, a
\* text by parsing it, and a missing cell as NaN.
to_numeric(c) ==
    CASE IsNumber(c) -> Number(c.num)
      [] c.kind \in {"NoneType", "nan"} -> NaN
      [] c.kind = "str" -> parse_float(c.chars)

\* a op b on two numbers.
compare_numbers(op, a, b) ==
    CASE op = "==" -> a = b
      [] op = "!=" -> a # b
      [] op = "<" -> a < b
      [] op = ">" -> a > b
      [] op = "<=" -> a <= b
      [] op = ">=" -> a >= b

\* x op value for a number x that is not NaN and a whole number, in
\* tenths, below 10^8 in size.
compare_float(op, x, value) ==
    IF x.inf = 1 \/ x.big = 1 THEN op \in {">", ">=", "!="}
    ELSE IF x.inf = -1 \/ x.big = -1 THEN op \in {"<", "<=", "!="}
    ELSE IF x.rest
    THEN CASE op = "==" -> FALSE
           [] op = "!=" -> TRUE
           [] op \in {"<", "<="} -> x.num < value
           [] op \in {">", ">="} -> x.num >= value
    ELSE compare_numbers(op, x.num, value)

\* A variant of compare_coerced where a comparison with NaN is True.
compare_coerced_nan_passes(op, x, value) ==
    IF x.nan THEN TRUE ELSE compare_float(op, x, value)

\* x op value where x may be NaN: every comparison with NaN is False,
\* except != which is True.
compare_coerced(op, x, value) ==
    IF x.nan THEN op = "!=" ELSE compare_float(op, x, value)

\* row[column] op value on the cell itself: a str or None against a number
\* raises TypeError for an ordering and is simply unequal for == and !=.
compare_raw(op, c, value) ==
    IF c.kind \in {"str", "NoneType"}
    THEN IF op \in {"==", "!="} THEN Returned(op = "!=")
         ELSE Raised("'" \o op \o "' not supported between instances of '"
                     \o type_name(c) \o "' and 'int'")
    ELSE Returned(compare_coerced(op, to_numeric(c), value))

\* The allow-list of line 221.
AllowedStrings ==
    {<<"a", "p", "p", "l", "e">>, <<"b", "a", "n", "a", "n", "a">>,
     <<"c", "h", "e", "r", "r", "y">>, <<"d", "a", "t", "e">>,
     <<"e", "l", "d", "e", "r", "b", "e", "r", "r", "y">>}

\* value in [...]: equal to one of the five strs, so never a missing cell
\* and never a number.
in_allowed(c) == c.kind = "str" /\ c.chars \in AllowedStrings

\* rule_func(row): row is a function from the column names to cells.
rule_func(rule, row) ==
    CASE rule.kind = "between" ->
            IF rule.column \in DOMAIN row
            THEN Returned(/\ compare_coerced(">=", to_numeric(row[rule.column]), rule.value)
                          /\ compare_coerced("<=", to_numeric(row[rule.column]), rule.upper))
            ELSE Returned(TRUE)
      [] rule.kind = "compare" ->
            IF rule.column \in DOMAIN row
            THEN Returned(compare_coerced(rule.op, to_numeric(row[rule.column]), rule.value))
            ELSE Returned(TRUE)
      [] rule.kind = "raw" ->
            IF rule.column \in DOMAIN row
            THEN compare_raw(rule.op, row[rule.column], rule.value)
            ELSE Raised("'" \o rule.column \o "'")
      [] rule.kind = "in_set" ->
            IF rule.column \in DOMAIN row
            THEN Returned(in_allowed(row[rule.column]))
            ELSE Returned(TRUE)

\* The dtype pandas gives a column of the frame.
dtype_of(cells) ==
    LET kinds == {cells[i].kind : i \in 1..Len(cells)}
    IN  IF cells = <<>> THEN "object"
        ELSE IF kinds = {"int"} THEN "int64"
        ELSE IF kinds \subseteq {"float", "nan"} THEN "float64"
        ELSE IF kinds = {"bool"} THEN "bool"
        ELSE "object"

\* The row handed out by iterrows(): a Series has one dtype, so in a frame
\* of int64 and float64 columns alone the ints of a row come out as floats.
iterrows_row(d, p) ==
    LET dtypes == {dtype_of(d.data[c]) : c \in Range(d.columns)}
        widen == dtypes = {"int64", "float64"}
    IN  [c \in Range(d.columns) |->
            IF widen /\ d.data[c][p].kind = "int" THEN FloatCell(d.data[c][p].num)
            ELSE d.data[c][p]]

\* Lines 173-179: the row as a dict with a NaN (or an infinite float)
\* replaced by its text.
clean_row(d, p) == [c \in Range(d.columns) |-> safe_value(iterrows_row(d, p)[c])]

AmbiguousTruthError ==
    "The truth value of a Series is ambiguous. Use a.empty, a.bool(), a.item(), a.any() or a.all()."

ErrorEntry(rule, text) ==
    [error |-> text, message |-> "Error checking rule: " \o rule.name]

\* The try block of lines 164-190 for one rule: the entry stored under the
\* rule's name, or nothing. df.apply walks the rows in order and the first
\* exception ends it. On a frame without rows df.apply calls the predicate
\* once on a row of NaN to learn the shape of the result. When that call
\* returns, the result is an empty Series: ~ returns an empty object as it
\* is, any() is False and the rule gets no entry. When the call raises,
\* df.apply swallows the exception and returns the empty frame, whose
\* any() is a Series, and "if" on a Series raises; that exception is
\* caught like one of the predicate.
rule_entry(d, rule) ==
    LET n == Len_df(d)
        outcome == [p \in 1..n |-> rule_func(rule, RowAt(d, p))]
        raising == {p \in 1..n : outcome[p].raised}
        first == CHOOSE p \in raising : \A q \in raising : p <= q
        failed_mask == [p \in 1..n |-> ~outcome[p].value]
        failed_indices == nonzero(failed_mask, 1)
        probe == rule_func(rule, [c \in Range(d.columns) |-> NaNCell])
    IN  IF n = 0
        THEN IF probe.raised
             THEN << <<rule.name, ErrorEntry(rule, AmbiguousTruthError)>> >>
             ELSE <<>>
        ELSE IF raising # {}
        THEN << <<rule.name, ErrorEntry(rule, outcome[first].error)>> >>
        ELSE IF failed_indices # <<>>
        THEN << <<rule.name,
                  [count |-> Len(failed_indices),
                   indices |-> failed_indices,
                   rows |-> [i \in 1..Len(failed_indices) |->
                                clean_row(d, failed_indices[i] + 1)]]>> >>
        ELSE <<>>

\* A variant with one try around the whole loop: the first rule that
\* raises is recorded and ends the evaluation.
RECURSIVE check_rules_aborting(_, _, _)
check_rules_aborting(d, rules, k) ==
    IF k > Len(rules) THEN <<>>
    ELSE IF rule_entry(d, rules[k]) # <<>> /\ "error" \in DOMAIN rule_entry(d, rules[k])[1][2]
    THEN rule_entry(d, rules[k])
    ELSE rule_entry(d, rules[k]) \o check_rules_aborting(d, rules, k + 1)

\* The loop over consistency_rules.items(), from the k-th rule on.
RECURSIVE check_rules(_, _, _)
check_rules(d, rules, k) ==
    IF k > Len(rules) THEN <<>>
    ELSE rule_entry(d, rules[k]) \o check_rules(d, rules, k + 1)

check_consistency(d, consistency_rules) ==
    IF check_rules(d, consistency_rules, 1) = <<>> THEN NoneSentinel
    ELSE PyDict(check_rules(d, consistency_rules, 1))

----------------------------------------------------------------------------
\* The specification of the consistency evaluator: a DataFrame, an ordered
\* set of named rules, and one call of check_consistency.

ValidAge ==
    [name |-> "Valid Age", kind |-> "between", column |-> "Age",
     op |-> "<=", value |-> 0, upper |-> 1200]

SalaryNonNegative ==
    [name |-> "Salary Non-negative", kind |-> "compare", column |-> "Salary",
     op |-> ">=", value |-> 0, upper |-> 0]

\* lambda row: row["Age"] >= 18
AdultRaw ==
    [name |-> "Adult", kind |-> "raw", column |-> "Age",
     op |-> ">=", value |-> 180, upper |-> 0]

\* lambda row: row["Ghost"] > 0, on a column the frame does not have
GhostRaw ==
    [name |-> "Ghost positive", kind |-> "raw", column |-> "Ghost",
     op |-> ">", value |-> 0, upper |-> 0]

RulePool == {ValidAge, SalaryNonNegative, AdultRaw, GhostRaw}

\* Every dict of at most n rules of the pool, in every insertion order.
RuleSets(n) == UNION {DistinctSeqs(RulePool, k) : k \in 0..n}

RuleAgeCells == {NoneCell, IntCell(30), IntCell(150), StrCell(<<"x">>)}
RuleSalaryCells == {IntCell(100), StrCell(<<"b", "a", "d">>)}

RuleFrames(n) ==
    {DataFrame(TableColumns, [c \in {"Age", "Salary"} |-> IF c = "Age" THEN a ELSE s]) :
        <<a, s>> \in UNION {[1..k -> RuleAgeCells] \X [1..k -> RuleSalaryCells] : k \in 0..n}}

InitRules ==
    /\ df \in RuleFrames(MaxRuleRows)
    /\ arg \in RuleSets(MaxRules)
    /\ call = "start"
    /\ out = Nothing
    /\ prev = Nothing

CheckConsistency ==
    /\ call = "start"
    /\ call' = "check_consistency"
    /\ out' = check_consistency(df, arg)
    /\ UNCHANGED <<df, arg, prev>>

NextRules == CheckConsistency

SpecRules == InitRules /\ [][NextRules]_vars

\* The rows, as positions, on which a rule's predicate raises.
RaisesOn(rule) == {p \in 1..Len_df(df) : rule_func(rule, RowAt(df, p)).raised}

\* The entry a result holds under a name, as a sequence of at most one.
EntryOf(result, name) == IF HasKey(result.v, name) THEN <<Get(result.v, name)>> ELSE <<>>

\* A dict of rules without its k-th rule.
WithoutRule(rules, k) == SubSeq(rules, 1, k - 1) \o SubSeq(rules, k + 1, Len(rules))

\* C1: a rule whose predicate raises on some row gets exactly the entry
\* {error: <exception text>, message: "Error checking rule: <name>"}, and
\* every other rule of the call, before or after it, gets the entry (or
\* none) it gets when the raising rule is not in the rule set.
C1_RuleIsolation ==
    call = "check_consistency" =>
        \A k \in 1..Len(arg) :
            RaisesOn(arg[k]) # {} =>
                LET first == CHOOSE p \in RaisesOn(arg[k]) : \A q \in RaisesOn(arg[k]) : p <= q
                IN  /\ out.t = "dict"
                    /\ HasKey(out.v, arg[k].name)
                    /\ DOMAIN Get(out.v, arg[k].name) = {"error", "message"}
                    /\ Get(out.v, arg[k].name).error
                          = rule_func(arg[k], RowAt(df, first)).error
                    /\ Get(out.v, arg[k].name).message
                          = "Error checking rule: " \o arg[k].name
                    /\ \A j \in (1..Len(arg)) \ {k} :
                          EntryOf(out, arg[j].name)
                             = EntryOf(check_consistency(df, WithoutRule(arg, k)), arg[j].name)

\* The first rule raises on the second row only (a str against a number),
\* and the rule after it still reports its failing row.
C1_Witness ==
    /\ call = "check_consistency"
    /\ Len(arg) = 2
    /\ arg[1] = AdultRaw
    /\ arg[2] = SalaryNonNegative
    /\ RaisesOn(AdultRaw) = {2}
    /\ out.t = "dict"
    /\ Get(out.v, "Adult").error
          = "'>=' not supported between instances of 'str' and 'int'"
    /\ HasKey(out.v, "Salary Non-negative")
    /\ Get(out.v, "Salary Non-negative").count = 1

\* The rows, as positions, on which a rule's predicate returns False.
FailsOn(rule) ==
    {p \in 1..Len_df(df) : /\ ~rule_func(rule, RowAt(df, p)).raised
                           /\ ~rule_func(rule, RowAt(df, p)).value}

\* The 0-based indices of a set of positions, ascending.
AscendingIndices(ps) == nonzero([p \in 1..Len_df(df) |-> p \in ps], 1)

\* r is the row of df at position p as a mapping column -> value: a number
\* by its value, a NaN as its text, anything else as it is.
IsRowOf(r, p) ==
    /\ DOMAIN r = Range(df.columns)
    /\ \A c \in Range(df.columns) :
          LET cell == RowAt(df, p)[c]
          IN  IF cell.kind = "nan" THEN r[c] = StrCell(<<"n", "a", "n">>)
              ELSE IF IsNumber(cell) THEN IsNumber(r[c]) /\ r[c].num = cell.num
              ELSE r[c] = cell

\* C11: a rule whose predicate raises on no row has an entry exactly when
\* the predicate is False on some row, and then indices is the ascending
\* list of those rows, count = len(indices) = len(rows) and rows[k] is the
\* row at indices[k]; the result is "None" exactly when no rule has a
\* failing row and no rule's predicate raised, on a dataset of any size,
\* the empty one included.
C11_AsStated ==
    call = "check_consistency" =>
        /\ \A k \in 1..Len(arg) :
              RaisesOn(arg[k]) = {} =>
                  /\ (out.t = "dict" /\ HasKey(out.v, arg[k].name))
                        <=> FailsOn(arg[k]) # {}
                  /\ FailsOn(arg[k]) # {} =>
                        LET entry == Get(out.v, arg[k].name)
                        IN  /\ DOMAIN entry = {"count", "indices", "rows"}
                            /\ entry.indices = AscendingIndices(FailsOn(arg[k]))
                            /\ entry.count = Len(entry.indices)
                            /\ Len(entry.rows) = Len(entry.indices)
                            /\ \A i \in 1..Len(entry.rows) :
                                  IsRowOf(entry.rows[i], entry.indices[i] + 1)
        /\ out = NoneSentinel
              <=> \A k \in 1..Len(arg) : RaisesOn(arg[k]) = {} /\ FailsOn(arg[k]) = {}

----------------------------------------------------------------------------
\* The consistency step of the two entry paths: run_data_quality_checks
\* (backend.py 217-226) and analyze_csv_custom (backend.py 302-341). Both
\* compute the other keys of the report from the same, unmodified df with
\* the detectors above; the state keeps results["consistency_issues"] as it
\* leaves clean_for_json.

StringInSet ==
    [name |-> "String in set", kind |-> "in_set", column |-> "string",
     op |-> "in", value |-> 0, upper |-> 0]

\* The dict of lines 218-222.
consistency_rules == <<ValidAge, SalaryNonNegative, StringInSet>>

\* The dict of lines 324-327.
default_rules == <<ValidAge, SalaryNonNegative>>

\* Lines 309-319: a caller's rule_spec {column, operator, value} becomes a
\* predicate when its column is one of df and its operator is a comparison.
parsed_rule(d, rule_spec) ==
    IF /\ rule_spec.column # ""
       /\ rule_spec.column \in Range(d.columns)
       /\ rule_spec.operator \in {"==", "!=", "<", ">", "<=", ">="}
    THEN << [name |-> rule_spec.name, kind |-> "compare",
             column |-> rule_spec.column, op |-> rule_spec.operator,
             value |-> rule_spec.value, upper |-> 0] >>
    ELSE <<>>

RECURSIVE parsed_rules(_, _, _)
parsed_rules(d, specs, k) ==
    IF k > Len(specs) THEN <<>>
    ELSE parsed_rule(d, specs[k]) \o parsed_rules(d, specs, k + 1)

\* clean_for_json on the consistency result: the "None" str, the names,
\* the texts and the ints stay; in a reported row a float NaN becomes "NaN"
\* and every other cell keeps its value.
clean_cell(c) == IF c.kind = "nan" THEN StrCell(<<"N", "a", "N">>) ELSE c

clean_entry(entry) ==
    IF "error" \in DOMAIN entry THEN entry
    ELSE [count |-> entry.count,
          indices |-> entry.indices,
          rows |-> [i \in 1..Len(entry.rows) |->
                       [c \in DOMAIN entry.rows[i] |-> clean_cell(entry.rows[i][c])]]]

clean_issues(result) ==
    IF result.t = "str" THEN result
    ELSE PyDict([i \in 1..Len(result.v) |->
                    <<result.v[i][1], clean_entry(result.v[i][2])>>])

\* results["consistency_issues"] of run_data_quality_checks(df).
run_data_quality_checks(d) == clean_issues(check_consistency(d, consistency_rules))

\* results["consistency_issues"] of analyze_csv_custom with the caller's
\* consistency_rules (<<>> when the caller supplies none).
analyze_csv_custom(d, rule_specs) ==
    IF rule_specs # <<>>
    THEN clean_issues(check_consistency(d, parsed_rules(d, rule_specs, 1)))
    ELSE clean_issues(check_consistency(d, default_rules))

\* The inputs: DataFrames over the columns the default rules name and over
\* columns they do not name, and the caller's rule specs.
DefaultColumnSets == {<<"Age">>, <<"Salary", "string">>, <<"float", "boolean">>}

\* "150" and "150.0" behind 17 zeros.
PaddedInt ==
    StrCell(<<"0", "0", "0", "0", "0", "0", "0", "0", "0", "0", "0", "0", "0", "0",
              "0", "0", "0", "1", "5", "0">>)
PaddedFloat ==
    StrCell(<<"0", "0", "0", "0", "0", "0", "0", "0", "0", "0", "0", "0", "0", "0",
              "0", "0", "0", "1", "5", "0", ".", "0">>)

DefaultCells(column) ==
    CASE column = "Age" -> RuleAgeCells \cup {StrCell(<<"", "5">>),
                                              PaddedInt, PaddedFloat}
      [] column = "Salary" -> {IntCell(100), StrCell(<<"b", "a", "d">>),
                               StrCell(<<"-", "5">>),
                               StrCell(<<"-", "1", "e", "-", "4", "0", "0">>)}
      [] column = "string" -> {StrCell(<<"d", "a", "t", "e">>), StrCell(<<"k", "i", "w", "i">>), NoneCell}
      [] column = "float" -> {FloatCell(15), NaNCell}
      [] column = "boolean" -> {BoolCell(TRUE)}

DefaultFrames(n) ==
    {DataFrame(cols, [c \in Range(cols) |-> IF c = cols[1] THEN a ELSE b]) :
        <<cols, a, b>> \in UNION {
            {cols} \X [1..k -> DefaultCells(cols[1])]
                   \X (IF Len(cols) = 1 THEN {<<>>}
                       ELSE [1..k -> DefaultCells(cols[Len(cols)])]) :
            <<cols, k>> \in DefaultColumnSets \X (0..n)}}

AdultSpec == [name |-> "Adult", column |-> "Age", operator |-> ">=", value |-> 180]
GhostSpec == [name |-> "Ghost positive", column |-> "Ghost", operator |-> ">", value |-> 0]

CallerRules == {<<>>, <<AdultSpec>>, <<GhostSpec, AdultSpec>>}

InitDefault ==
    /\ df \in DefaultFrames(MaxDefaultRows)
    /\ arg \in CallerRules
    /\ call = "start"
    /\ out = Nothing
    /\ prev = Nothing

RunDataQualityChecks ==
    /\ call = "start"
    /\ call' = "run_data_quality_checks"
    /\ out' = run_data_quality_checks(df)
    /\ UNCHANGED <<df, arg, prev>>

AnalyzeCsvCustom ==
    /\ call = "start"
    /\ call' = "analyze_csv_custom"
    /\ out' = analyze_csv_custom(df, arg)
    /\ UNCHANGED <<df, arg, prev>>

NextDefault ==
    \/ RunDataQualityChecks
    \/ AnalyzeCsvCustom

SpecDefault == InitDefault /\ [][NextDefault]_vars

\* The rows, as positions, the result reports under a rule's name.
ReportedUnder(name) ==
    IF out.t = "dict" /\ HasKey(out.v, name) /\ "indices" \in DOMAIN Get(out.v, name)
    THEN {Get(out.v, name).indices[i] + 1 : i \in 1..Len(Get(out.v, name).indices)}
    ELSE {}

\* The result holds an error entry under a rule's name.
ErroredUnder(name) ==
    out.t = "dict" /\ HasKey(out.v, name) /\ "error" \in DOMAIN Get(out.v, name)

\* What the numeric coercion makes of the cells an Age column is drawn
\* from, in tenths and as a sequence of at most one number: a number is
\* its own value; "\x0b5" is 5, the vertical tab being whitespace; the
\* digits of PaddedInt are an int, 150; of PaddedFloat, a text with a
\* point, only the first 17 digits are read and they are zeros, so it is
\* 0.0; a missing cell and "x" are not-a-number, the empty sequence.
AgeCoerced(cell) ==
    CASE cell.kind \in {"int", "float", "bool"} -> <<cell.num>>
      [] cell = StrCell(<<"", "5">>) -> <<50>>
      [] cell = PaddedInt -> <<1500>>
      [] cell = PaddedFloat -> <<0>>
      [] cell \in {NoneCell, NaNCell, StrCell(<<"x">>)} -> <<>>

\* The numeric coercion of the Age of the row at position p lies in 0..120.
AgeInRange(p) ==
    \E i \in 1..Len(AgeCoerced(df.data["Age"][p])) :
        /\ 0 <= AgeCoerced(df.data["Age"][p])[i]
        /\ AgeCoerced(df.data["Age"][p])[i] <= 1200

AgeScenario == <<IntCell(30), IntCell(150), StrCell(<<"x">>)>>

NamesNoRuleColumn == Range(df.columns) \cap {"Age", "Salary", "string"} = {}

\* C12: with the default rules, "Valid Age" passes a row exactly when df
\* has no Age column or the numeric coercion of the row's Age lies in
\* 0..120; an Age that cannot be coerced, or a missing one, fails the rule
\* and raises nothing. For Age = [30, 150, "x"] the rule reports rows 1 and
\* 2 and not row 0, and on a dataset without the Age, Salary and string
\* columns no rule reports a row.
C12_ValidAge ==
    call = "run_data_quality_checks" =>
        /\ \A p \in 1..Len_df(df) :
              p \notin ReportedUnder("Valid Age")
                 <=> ("Age" \notin Range(df.columns) \/ AgeInRange(p))
        /\ ~ErroredUnder("Valid Age")
        /\ ("Age" \in Range(df.columns) /\ df.data["Age"] = AgeScenario) =>
              /\ out.t = "dict"
              /\ HasKey(out.v, "Valid Age")
              /\ Get(out.v, "Valid Age").count = 2
              /\ Get(out.v, "Valid Age").indices = <<1, 2>>
        /\ NamesNoRuleColumn =>
              /\ \A k \in 1..Len(consistency_rules) :
                    ReportedUnder(consistency_rules[k].name) = {}
              /\ out = NoneSentinel

\* Age = [30, 150, "x"]: rows 1 and 2 are reported under "Valid Age".
\* (With Age = ["150" behind 17 zeros, the same with ".0", None] rows 0
\* and 2 are reported, row 1 is coerced to 0.0 and passes.)
C12_Witness ==
    /\ call = "run_data_quality_checks"
    /\ "Age" \in Range(df.columns)
    /\ df.data["Age"] = AgeScenario
    /\ ReportedUnder("Valid Age") = {2, 3}
    /\ ~ErroredUnder("Valid Age")

\* The rows, as positions, whose string cell is outside the allow-list.
OutsideAllowList ==
    IF "string" \in Range(df.columns)
    THEN {p \in 1..Len_df(df) : ~in_allowed(df.data["string"][p])}
    ELSE {}

\* C14 as stated: on both entry paths, when the caller supplies no
\* consistency rules, the rules evaluated are "Valid Age", "Salary
\* Non-negative" and "String in set", so every row whose string cell is
\* outside the allow-list is reported under "String in set".
C14_AsStated ==
    (\/ call = "run_data_quality_checks"
     \/ call = "analyze_csv_custom" /\ arg = <<>>) =>
        OutsideAllowList \subseteq ReportedUnder("String in set")

----------------------------------------------------------------------------
\* clean_for_json (backend.py 27-52).
\*
\* A Python object is [t, s, n, items]: t is its type; s, a sequence of
\* characters, is the text of a str, the display text of an object of
\* some other class, or which non-finite value a float is (nan, inf, -inf,
\* and nothing for a finite one); n is the value of an int, the value in
\* tenths of a finite float, 1 or 0 for a bool; items are the elements of
\* a list, tuple or array, or the entries of a dict, each entry an "item"
\* object holding <<key, value>>.

Obj(t, s, n, items) == [t |-> t, s |-> s, n |-> n, items |-> items]

JFloat(tenths) == Obj("float", <<>>, tenths, <<>>)
JNaN == Obj("float", <<"n", "a", "n">>, 0, <<>>)
JInf == Obj("float", <<"i", "n", "f">>, 0, <<>>)
JNegInf == Obj("float", <<"-", "i", "n", "f">>, 0, <<>>)
JInt(n) == Obj("int", <<>>, n, <<>>)
JStr(s) == Obj("str", s, 0, <<>>)
JBool(b) == Obj("bool", <<>>, IF b THEN 1 ELSE 0, <<>>)
JNone == Obj("NoneType", <<>>, 0, <<>>)
JList(items) == Obj("list", <<>>, 0, items)
JTuple(items) == Obj("tuple", <<>>, 0, items)
JItem(k, v) == Obj("item", <<>>, 0, <<k, v>>)
JDict(entries) == Obj("dict", <<>>, 0, entries)
NpInt64(n) == Obj("numpy.int64", <<>>, n, <<>>)
NpFloat64(s, tenths) == Obj("numpy.float64", s, tenths, <<>>)
NpFloat32(s, tenths) == Obj("numpy.float32", s, tenths, <<>>)
NpBool(b) ==
    Obj("numpy.bool_", IF b THEN <<"T", "r", "u", "e">> ELSE <<"F", "a", "l", "s", "e">>,
        IF b THEN 1 ELSE 0, <<>>)
\* An array. Its dtype is read off its items: int64, float64, float32 or
\* bool when every item is a numpy scalar of that type, rows of a 2-D
\* array when every item is an array, and object for any other items.
NpArray(items) == Obj("numpy.ndarray", <<>>, 0, items)
\* An object of a class the function does not know whose str() and repr()
\* are the same text, such as a set, a complex or a range.
Other(display) == Obj("object", display, 0, <<>>)

\* sep.join(parts)
RECURSIVE join(_, _)
join(parts, sep) ==
    IF parts = <<>> THEN <<>>
    ELSE IF Len(parts) = 1 THEN parts[1]
    ELSE parts[1] \o sep \o join(Tail(parts), sep)

\* A character of a str as repr writes it between the quotes it chose.
escaped(ch, quote) ==
    CASE ch = "\\" -> <<"\\", "\\">>
      [] ch = quote -> <<"\\", ch>>
      [] ch = "\n" -> <<"\\", "n">>
      [] ch = "\r" -> <<"\\", "r">>
      [] ch = "\t" -> <<"\\", "t">>
      [] ch = "" -> <<"\\", "x", "0", "b">>
      [] ch = "\f" -> <<"\\", "x", "0", "c">>
      [] OTHER -> <<ch>>

\* repr(obj) of the Python objects a tuple can hold, and of a tuple. A
\* number is written with its sign before its digits; a str in single
\* quotes, or in double quotes when it holds a single quote and no double
\* quote. The characters of a str are printable ASCII or one of the
\* escapes above; numpy objects inside a tuple are not covered.
RECURSIVE repr(_)
repr(obj) ==
    CASE obj.t = "float" ->
            IF obj.s # <<>> THEN obj.s
            ELSE (IF obj.n < 0 THEN <<"-">> ELSE <<>>)
                 \o Digits(Abs(obj.n) \div 10) \o <<".">> \o Digits(Abs(obj.n) % 10)
      [] obj.t = "int" -> (IF obj.n < 0 THEN <<"-">> ELSE <<>>) \o Digits(Abs(obj.n))
      [] obj.t = "str" ->
            LET quote == IF "'" \in Range(obj.s) /\ "\"" \notin Range(obj.s)
                         THEN "\"" ELSE "'"
            IN  <<quote>>
                \o join([i \in 1..Len(obj.s) |-> escaped(obj.s[i], quote)], <<>>)
                \o <<quote>>
      [] obj.t = "bool" -> IF obj.n = 1 THEN <<"T", "r", "u", "e">> ELSE <<"F", "a", "l", "s", "e">>
      [] obj.t = "NoneType" -> <<"N", "o", "n", "e">>
      [] obj.t = "tuple" ->
            IF Len(obj.items) = 1 THEN <<"(">> \o repr(obj.items[1]) \o <<",", ")">>
            ELSE <<"(">>
                 \o join([i \in 1..Len(obj.items) |-> repr(obj.items[i])], <<",", " ">>)
                 \o <<")">>
      [] obj.t = "list" ->
            <<"[">>
            \o join([i \in 1..Len(obj.items) |-> repr(obj.items[i])], <<",", " ">>)
            \o <<"]">>
      [] obj.t = "dict" ->
            <<"{">>
            \o join([i \in 1..Len(obj.items) |->
                        repr(obj.items[i].items[1]) \o <<":", " ">>
                        \o repr(obj.items[i].items[2])], <<",", " ">>)
            \o <<"}">>
      [] obj.t = "object" -> obj.s

\* str(obj) on the last branch: repr for a tuple, the display text of any
\* other object (True or False for a numpy bool).
str(obj) == IF obj.t = "tuple" THEN repr(obj) ELSE obj.s

\* The dtype of an array.
array_dtype(obj) ==
    LET kinds == {obj.items[i].t : i \in 1..Len(obj.items)}
    IN  CASE kinds = {"numpy.int64"} -> "int64"
          [] kinds = {"numpy.float64"} -> "float64"
          [] kinds = {"numpy.float32"} -> "float32"
          [] kinds = {"numpy.bool_"} -> "bool"
          [] kinds = {"numpy.ndarray"} -> "rows"
          [] OTHER -> "object"

\* ndarray.tolist(): the items of an array of numbers or bools as Python
\* scalars, the rows of a 2-D array as lists, and the items of an object
\* array as the objects they are.
RECURSIVE tolist(_)
tolist(obj) ==
    JList([i \in 1..Len(obj.items) |->
              LET x == obj.items[i]
              IN  CASE array_dtype(obj) = "int64" -> JInt(x.n)
                    [] array_dtype(obj) \in {"float64", "float32"} ->
                          Obj("float", x.s, x.n, <<>>)
                    [] array_dtype(obj) = "bool" -> JBool(x.n = 1)
                    [] array_dtype(obj) = "rows" -> tolist(x)
                    [] OTHER -> x])

\* Lines 34-38 and 44-48: a NaN or an infinity as its name.
non_finite_name(obj) ==
    CASE obj.s = <<"n", "a", "n">> -> JStr(<<"N", "a", "N">>)
      [] obj.s = <<"i", "n", "f">> -> JStr(<<"I", "n", "f", "i", "n", "i", "t", "y">>)
      [] obj.s = <<"-", "i", "n", "f">> -> JStr(<<"-", "I", "n", "f", "i", "n", "i", "t", "y">>)

RECURSIVE clean_for_json(_)

\* A variant of the array branch that returns the list as it is.
clean_ndarray_unclean(obj) == tolist(obj)

\* Line 50.
clean_ndarray(obj) == clean_for_json(tolist(obj))

\* The branches in the order of the isinstance tests. numpy.float64 is a
\* subclass of float and takes the float branch, which returns a finite
\* value as the object it is; the other numpy floats reach line 43.
clean_for_json(obj) ==
    CASE obj.t = "dict" ->
            JDict([i \in 1..Len(obj.items) |->
                      JItem(obj.items[i].items[1], clean_for_json(obj.items[i].items[2]))])
      [] obj.t = "list" ->
            JList([i \in 1..Len(obj.items) |-> clean_for_json(obj.items[i])])
      [] obj.t \in {"float", "numpy.float64"} ->
            IF obj.s # <<>> THEN non_finite_name(obj) ELSE obj
      [] obj.t \in {"int", "str", "bool", "NoneType"} -> obj
      [] obj.t = "numpy.int64" -> JInt(obj.n)
      [] obj.t = "numpy.float32" ->
            IF obj.s # <<>> THEN non_finite_name(obj) ELSE JFloat(obj.n)
      [] obj.t = "numpy.ndarray" -> clean_ndarray(obj)
      [] OTHER -> JStr(str(obj))

\* results[key] = value (line 248): the value under a key the dict holds
\* is replaced where it is, a new key goes to the end.
set_item(d, key, value) ==
    IF \E i \in 1..Len(d.items) : d.items[i].items[1] = key
    THEN JDict([i \in 1..Len(d.items) |->
                   IF d.items[i].items[1] = key THEN JItem(key, value) ELSE d.items[i]])
    ELSE JDict(Append(d.items, JItem(key, value)))

\* The dict of lines 248-253.
file_info(filename, rows, column_names) ==
    JDict(<<JItem(JStr(<<"f", "i", "l", "e", "n", "a", "m", "e">>), JStr(filename)),
            JItem(JStr(<<"r", "o", "w", "s">>), JInt(rows)),
            JItem(JStr(<<"c", "o", "l", "u", "m", "n", "s">>), JInt(Len(column_names))),
            JItem(JStr(<<"c", "o", "l", "u", "m", "n", "_", "n", "a", "m", "e", "s">>),
                  JList([i \in 1..Len(column_names) |-> JStr(column_names[i])]))>>)

----------------------------------------------------------------------------
\* The specification of the normalizer: an object and clean_for_json
\* applied to it (run_data_quality_checks, line 226); when the result is a
\* dict, as the results of run_data_quality_checks are, analyze_csv puts
\* the file's description in it and cleans it again (lines 248-256).

Scalars ==
    {JNaN, JInf, JNegInf, JFloat(15), JInt(1), JStr(<<"a">>), JBool(TRUE), JNone,
     NpInt64(7), NpFloat64(<<"n", "a", "n">>, 0), NpFloat64(<<>>, 25), NpFloat32(<<"n", "a", "n">>, 0),
     NpFloat32(<<"-", "i", "n", "f">>, 0), NpFloat32(<<>>, 15), NpBool(TRUE), Other(<<"{", "1", "}">>)}

SeqsUpTo(S, n) == UNION {[1..k -> S] : k \in 0..n}

TupleItems ==
    {JNaN, JInt(1), JStr(<<"a">>), JFloat(-5), JStr(<<"i", "t", "'", "s">>), JStr(<<"a", "\n">>),
     JList(<<JInt(1)>>), JDict(<<>>)}
Tuples == {JTuple(q) : q \in SeqsUpTo(TupleItems, MaxItems) \ {<<>>}}

ArrayItems == {NpFloat64(<<"n", "a", "n">>, 0), NpFloat64(<<>>, 25), NpInt64(7)}
Arrays == {NpArray(q) : q \in SeqsUpTo(ArrayItems, MaxItems)}

ListItems ==
    {JNaN, JFloat(15), NpInt64(7), NpFloat32(<<"n", "a", "n">>, 0), JTuple(<<JNaN>>),
     NpArray(<<NpFloat64(<<"n", "a", "n">>, 0)>>), Other(<<"{", "1", "}">>)}
Lists == {JList(q) : q \in SeqsUpTo(ListItems, MaxItems)}

DictKeys ==
    {JStr(<<"a">>), JStr(<<"b">>), JNaN, JTuple(<<JInt(1), JInt(2)>>), NpInt64(7)}
DictValues == {JNaN, JInt(1), NpFloat32(<<>>, 15), JList(<<JNaN>>)}
Dicts ==
    {JDict([i \in 1..Len(ks) |-> JItem(ks[i], vs[i])]) :
        <<ks, vs>> \in UNION {DistinctSeqs(DictKeys, k) \X [1..k -> DictValues] :
                                 k \in 0..MaxItems}}

Containers == Tuples \cup Arrays \cup Lists \cup Dicts

Nested ==
    {JList(<<x>>) : x \in Containers}
    \cup {JDict(<<JItem(JStr(<<"a">>), x)>>) : x \in Containers}
    \cup {NpArray(<<x, x>>) : x \in Arrays}

Objects == Scalars \cup Containers \cup Nested

\* The descriptions of a file: its name, which ends in .xlsx (line 233),
\* the number of rows and the column names.
FileInfos ==
    {file_info(<<"a", ".", "x", "l", "s", "x">>, rows, names) :
        rows \in 0..1, names \in {<<>>, <<<<"A", "g", "e">>, <<"S", "a", "l", "a", "r", "y">>>>}}

InitJson ==
    /\ df = DataFrame(<<>>, <<>>)
    /\ arg \in Objects
    /\ call = "start"
    /\ out = JNone
    /\ prev = JNone

CleanForJson ==
    /\ call = "start"
    /\ call' = "clean_for_json"
    /\ out' = clean_for_json(arg)
    /\ UNCHANGED <<df, arg, prev>>

\* Lines 248-256 of analyze_csv: prev is the dict handed to the second
\* clean_for_json, out what comes back.
AnalyzeCsv ==
    /\ call = "clean_for_json"
    /\ out.t = "dict"
    /\ call' = "analyze_csv"
    /\ \E info \in FileInfos :
          /\ prev' = set_item(out, JStr(<<"f", "i", "l", "e", "_", "i", "n", "f", "o">>), info)
          /\ out' = clean_for_json(set_item(out, JStr(<<"f", "i", "l", "e", "_", "i", "n", "f", "o">>), info))
    /\ UNCHANGED <<df, arg>>

NextJson ==
    \/ CleanForJson
    \/ AnalyzeCsv

SpecJson == InitJson /\ [][NextJson]_vars

\* C8: clean_for_json is idempotent, cleaning a cleaned object gives the
\* same object, also after analyze_csv has put the file's description in
\* it; and it maps NaN to "NaN", +Inf to "Infinity" and -Inf to
\* "-Infinity".
C8_Idempotent ==
    /\ call = "clean_for_json" =>
          /\ clean_for_json(out) = out
          /\ arg = JNaN => out = JStr(<<"N", "a", "N">>)
          /\ arg = JInf => out = JStr(<<"I", "n", "f", "i", "n", "i", "t", "y">>)
          /\ arg = JNegInf => out = JStr(<<"-", "I", "n", "f", "i", "n", "i", "t", "y">>)
    /\ call = "analyze_csv" => out = prev

\* A list holding an array with a NaN in it has been cleaned: the
\* cleaning changed it, and the result is what cleaning it again gives.
C8_Witness ==
    /\ call = "clean_for_json"
    /\ arg.t = "list"
    /\ \E i \in 1..Len(arg.items) :
          /\ arg.items[i].t = "numpy.ndarray"
          /\ out.items[i] = JList(<<JStr(<<"N", "a", "N">>)>>)
    /\ out # arg
    /\ clean_for_json(out) = out

\* The primitives of strict JSON: int, finite float, str, bool and null.
IsPrimitive(obj) ==
    \/ obj.t \in {"int", "str", "bool", "NoneType"}
    \/ obj.t \in {"float", "numpy.float64"} /\ obj.s = <<>>

RECURSIVE JsonSafe(_)
JsonSafe(obj) ==
    CASE obj.t = "dict" ->
            \A i \in 1..Len(obj.items) :
                /\ IsPrimitive(obj.items[i].items[1])
                /\ JsonSafe(obj.items[i].items[2])
      [] obj.t = "list" -> \A i \in 1..Len(obj.items) : JsonSafe(obj.items[i])
      [] OTHER -> IsPrimitive(obj)

\* C9: the result of clean_for_json holds, at every depth and in the dict
\* keys too, only dicts, lists and the primitives int, finite float, str,
\* bool and None.
C9_AsStated == call = "clean_for_json" => JsonSafe(out)

====
